---- MODULE Spec2Model ----
(***************************************************************************)
(* Model of src/admin_system.py: the AdminSystem object (its current       *)
(* session, its four in-memory collections and its activity log), the five *)
(* JSON files under data/, and one action per AdminSystem method.          *)
(*                                                                         *)
(* Representation                                                          *)
(*   - a Python dict is a sequence of [key, val] pairs in insertion order; *)
(*   - a JSON file is the list of dicts json.dump wrote;                   *)
(*   - None is the empty tuple; a datetime is <<"datetime", n>> and its    *)
(*     isoformat() text is <<"iso", n>>, n the reading of the clock;       *)
(*   - current_user is None or <<username>>: a reference to the User       *)
(*     object stored under that key of self.users (the code never replaces *)
(*     or removes a User object, so the reference is the key);             *)
(*   - sha256(p).hexdigest() is <<"sha256", p>>;                           *)
(*   - an f-string is the tuple of its parts;                              *)
(*   - all readings of datetime.now() within one call are one reading;     *)
(*   - a call is one step: it leaves in `last` its name, the last line it  *)
(*     printed and the rows it listed; next_call then hands control back   *)
(*     to the caller, and only then is the next call made.                 *)
(***************************************************************************)
EXTENDS Integers, Sequences, FiniteSets, TLC

VARIABLES
    running,        \* the process is alive (no sys.exit, no uncaught exception)
    current_user,   \* AdminSystem.current_user
    users,          \* AdminSystem.users
    departments,    \* AdminSystem.departments
    employees,      \* AdminSystem.employees
    tasks,          \* AdminSystem.tasks
    logs,           \* AdminSystem.logs
    f_users,        \* data/users.json
    f_departments,  \* data/departments.json
    f_employees,    \* data/employees.json
    f_tasks,        \* data/tasks.json
    f_logs,         \* data/activity_logs.json
    clock,          \* the reading datetime.now() last returned
    last            \* the last method called, what it printed last, the rows it listed

memory == <<users, departments, employees, tasks, logs>>
files == <<f_users, f_departments, f_employees, f_tasks, f_logs>>
vars == <<running, current_user, users, departments, employees, tasks, logs,
          f_users, f_departments, f_employees, f_tasks, f_logs, clock, last>>

(***************************************************************************)
(* Bounds and input sets                                                   *)
(***************************************************************************)
\* clock readings explored after start-up
MaxOps == 3
\* comments kept on one task
MaxComments == 2

None == <<>>

Usernames == {"admin", "m1", "s1", "x1", "u2"}
Passwords == {"admin123", "pw"}
DeptIds == {"D1", "D2"}
EmpIds == {"E1", "E2"}
TaskIds == {"T1", "T2"}

\* what is typed into each prompt: the accepted values, and each rejected
\* value with the other fields accepted
LoginInputs == Usernames \X Passwords
\* current password, new password, confirmation
ChangePasswordInputs == Passwords \X {"pw"} \X Passwords
\* username, password, confirmation, role
CreateUserInputs ==
    ({"admin", "u2"} \X {"pw"} \X {"pw"} \X {"Manager", "staff"})
        \cup {<<"u2", "pw", "admin123", "staff">>, <<"u2", "pw", "pw", "boss">>}
\* department id, manager, budget
CreateDepartmentInputs ==
    (DeptIds \X {"m1"} \X {"10000", "-5"})
        \cup ({"D2"} \X {"s1", "u2"} \X {"10000"})
        \cup {<<"D2", "m1", "abc">>}
\* employee id, department id, hire date, salary
AddEmployeeInputs ==
    (EmpIds \X DeptIds \X {"2024-12-31"} \X {"10000", "-5"})
        \cup ({"E2"} \X DeptIds \X {"01/01/2025"} \X {"10000"})
        \cup ({"E2"} \X DeptIds \X {"2024-12-31"} \X {"abc"})
\* task id, employee id, due date, priority
CreateTaskInputs ==
    (TaskIds \X EmpIds \X {"2024-12-31"} \X {"HIGH", "urgent"})
        \cup ({"T2"} \X EmpIds \X {"01/01/2025"} \X {"HIGH"})
\* task id, status, comment
UpdateTaskStatusInputs ==
    (TaskIds \X {"pending", "in_progress", "Completed", "cancelled", "bogus"} \X {""})
        \cup (TaskIds \X {"in_progress", "bogus"} \X {"done"})
\* free text the code stores without looking at it
TextInput == "text"

(***************************************************************************)
(* Python built-ins                                                        *)
(***************************************************************************)
\* str.lower() on the inputs above
lower(s) ==
    CASE s = "Manager" -> "manager"
      [] s = "HIGH" -> "high"
      [] s = "Completed" -> "completed"
      [] OTHER -> s

\* float(s) raises ValueError
FloatRaises(s) == s \notin {"10000", "-5", "0"}
\* float(s), in whole currency units
float(s) ==
    CASE s = "10000" -> 10000
      [] s = "-5" -> 0 - 5
      [] OTHER -> 0

\* datetime.strptime(s, "%Y-%m-%d") raises ValueError
StrptimeRaises(s) == s \notin {"2025-01-01", "2024-12-31"}

\* datetime.now() read at clock reading n, and datetime.isoformat / fromisoformat
datetime(n) == <<"datetime", n>>
isoformat(d) == <<"iso", d[2]>>
fromisoformat(s) == <<"datetime", s[2]>>

\* dict: key in d, d[key], d[key] = val, d.values()
Has(d, k) == \E i \in 1..Len(d) : d[i].key = k
Get(d, k) == d[CHOOSE i \in 1..Len(d) : d[i].key = k].val
Put(d, k, v) ==
    IF Has(d, k)
    THEN [i \in 1..Len(d) |-> IF d[i].key = k THEN [key |-> k, val |-> v] ELSE d[i]]
    ELSE Append(d, [key |-> k, val |-> v])
Values(d) == [i \in 1..Len(d) |-> d[i].val]
Keys(d) == {d[i].key : i \in 1..Len(d)}
\* x in list
In(x, list) == \E i \in 1..Len(list) : list[i] = x

(***************************************************************************)
(* Entity models                                                           *)
(***************************************************************************)
hash_password(password) == <<"sha256", password>>

verify_password(user, password) == user.password_hash = hash_password(password)

User(username, password_hash, role, full_name, email) ==
    [username |-> username, password_hash |-> password_hash, role |-> role,
     full_name |-> full_name, email |-> email, last_login |-> None,
     is_active |-> TRUE]

User_to_dict(u) ==
    [username |-> u.username, password_hash |-> u.password_hash, role |-> u.role,
     full_name |-> u.full_name, email |-> u.email,
     last_login |-> IF u.last_login # None THEN isoformat(u.last_login) ELSE None,
     is_active |-> u.is_active]

User_from_dict(data) ==
    [User(data.username, data.password_hash, data.role, data.full_name, data.email)
        EXCEPT !.last_login = IF data.last_login # None
                              THEN fromisoformat(data.last_login) ELSE None,
               !.is_active = data.is_active]

Department(dept_id, name, manager, description, now) ==
    [dept_id |-> dept_id, name |-> name, manager |-> manager,
     description |-> description, employees |-> <<>>, budget |-> 0,
     created_at |-> datetime(now)]

Department_to_dict(d) ==
    [dept_id |-> d.dept_id, name |-> d.name, manager |-> d.manager,
     description |-> d.description, employees |-> d.employees, budget |-> d.budget,
     created_at |-> isoformat(d.created_at)]

Department_from_dict(data, now) ==
    [Department(data.dept_id, data.name, data.manager, data.description, now)
        EXCEPT !.employees = data.employees,
               !.budget = data.budget,
               !.created_at = fromisoformat(data.created_at)]

\* mutant: the membership test is inverted, so a new id is never appended
Department_add_employee_inverted(d, employee_id) ==
    IF In(employee_id, d.employees)
    THEN [d EXCEPT !.employees = Append(@, employee_id)]
    ELSE d

Department_add_employee(d, employee_id) ==
    IF ~In(employee_id, d.employees)
    THEN [d EXCEPT !.employees = Append(@, employee_id)]
    ELSE d

Employee(emp_id, full_name, position, department, hire_date, salary, email, phone) ==
    [emp_id |-> emp_id, full_name |-> full_name, position |-> position,
     department |-> department, hire_date |-> hire_date, salary |-> salary,
     email |-> email, phone |-> phone, is_active |-> TRUE,
     emergency_contact |-> None, notes |-> ""]

Employee_to_dict(e) == e

Employee_from_dict(data) ==
    [Employee(data.emp_id, data.full_name, data.position, data.department,
              data.hire_date, data.salary, data.email, data.phone)
        EXCEPT !.is_active = data.is_active,
               !.emergency_contact = data.emergency_contact,
               !.notes = data.notes]

Task(task_id, title, description, assigned_to, assigned_by, due_date, priority, now) ==
    [task_id |-> task_id, title |-> title, description |-> description,
     assigned_to |-> assigned_to, assigned_by |-> assigned_by,
     due_date |-> due_date, priority |-> priority, status |-> "pending",
     created_at |-> datetime(now), completed_at |-> None, comments |-> <<>>]

Task_to_dict(t) ==
    [t EXCEPT !.created_at = isoformat(t.created_at),
              !.completed_at = IF t.completed_at # None
                               THEN isoformat(t.completed_at) ELSE None]

\* mutant: the completion timestamp is not read back
Task_from_dict_no_completion(data, now) ==
    [Task(data.task_id, data.title, data.description, data.assigned_to,
          data.assigned_by, data.due_date, data.priority, now)
        EXCEPT !.status = data.status,
               !.created_at = fromisoformat(data.created_at),
               !.comments = data.comments]

Task_from_dict(data, now) ==
    [Task(data.task_id, data.title, data.description, data.assigned_to,
          data.assigned_by, data.due_date, data.priority, now)
        EXCEPT !.status = data.status,
               !.created_at = fromisoformat(data.created_at),
               !.completed_at = IF data.completed_at # None
                                THEN fromisoformat(data.completed_at) ELSE None,
               !.comments = data.comments]

Task_add_comment(t, comment, author, now) ==
    [t EXCEPT !.comments = Append(@, [text |-> comment, author |-> author,
                                      timestamp |-> isoformat(datetime(now))])]

valid_statuses == {"pending", "in_progress", "completed", "cancelled"}

\* mutant: leaving completed clears the completion timestamp
Task_update_status_clears(t, new_status, now) ==
    IF new_status \in valid_statuses
    THEN [t EXCEPT !.status = new_status,
                   !.completed_at = IF new_status = "completed"
                                    THEN datetime(now) ELSE None]
    ELSE t

\* mutant: a completed or cancelled task keeps its status
Task_update_status_forward_only(t, new_status, now) ==
    IF new_status \in valid_statuses /\ t.status \notin {"completed", "cancelled"}
    THEN [t EXCEPT !.status = new_status,
                   !.completed_at = IF new_status = "completed"
                                    THEN datetime(now) ELSE @]
    ELSE t

Task_update_status(t, new_status, now) ==
    IF new_status \in valid_statuses
    THEN [t EXCEPT !.status = new_status,
                   !.completed_at = IF new_status = "completed"
                                    THEN datetime(now) ELSE @]
    ELSE t

(***************************************************************************)
(* Record store                                                            *)
(***************************************************************************)
\* the key _load_data gives an item
item_key(item) ==
    IF "username" \in DOMAIN item THEN item.username
    ELSE IF "dept_id" \in DOMAIN item THEN item.dept_id
    ELSE IF "emp_id" \in DOMAIN item THEN item.emp_id
    ELSE item.task_id

RECURSIVE load_items(_, _, _)
\* the dict comprehension of _load_data over data[1..n], entities already built
load_items(data, built, n) ==
    IF n = 0 THEN <<>>
    ELSE Put(load_items(data, built, n - 1), item_key(data[n]), built[n])

_load_users(data) ==
    load_items(data, [i \in 1..Len(data) |-> User_from_dict(data[i])], Len(data))
_load_departments(data, now) ==
    load_items(data, [i \in 1..Len(data) |-> Department_from_dict(data[i], now)], Len(data))
_load_employees(data) ==
    load_items(data, [i \in 1..Len(data) |-> Employee_from_dict(data[i])], Len(data))
_load_tasks(data, now) ==
    load_items(data, [i \in 1..Len(data) |-> Task_from_dict(data[i], now)], Len(data))

\* what _save_data writes for each collection
\* mutant: the last login is not written
_save_users_no_last_login(d) ==
    [i \in 1..Len(d) |-> [User_to_dict(d[i].val) EXCEPT !.last_login = None]]

_save_users(d) == [i \in 1..Len(d) |-> User_to_dict(d[i].val)]
_save_departments(d) == [i \in 1..Len(d) |-> Department_to_dict(d[i].val)]
_save_employees(d) == [i \in 1..Len(d) |-> Employee_to_dict(d[i].val)]
_save_tasks(d) == [i \in 1..Len(d) |-> Task_to_dict(d[i].val)]
_save_logs(l) == l

\* the entry _log_activity appends when the session is cu over the users us
log_entry(cu, us, action, details, now) ==
    [timestamp |-> isoformat(datetime(now)),
     user |-> IF cu # None THEN Get(us, cu[1]).username ELSE "system",
     action |-> action,
     details |-> details]

\* mutant: the newest entry is put first
_log_activity_newest_first(cu, us, action, details, now) ==
    /\ logs' = <<log_entry(cu, us, action, details, now)>> \o logs
    /\ f_logs' = _save_logs(logs')

\* _log_activity: append and rewrite activity_logs.json
_log_activity(cu, us, action, details, now) ==
    /\ logs' = Append(logs, log_entry(cu, us, action, details, now))
    /\ f_logs' = _save_logs(logs')

\* the method returns after printing out (and, for a listing, rows)
Return(op, out, rows) == last' = [op |-> op, out |-> out, rows |-> rows]

\* the method raises an exception nothing catches
Raise(op, exc) ==
    /\ running' = FALSE
    /\ last' = [op |-> op, out |-> exc, rows |-> <<>>]

\* no call is in progress or unread: the caller is about to make the next one
Ready == [op |-> "", out |-> "", rows |-> <<>>]

\* the role of the session user
role_of(cu, us) == Get(us, cu[1]).role

(***************************************************************************)
(* Start-up state: data/ as an earlier run left it                         *)
(***************************************************************************)
default_admin ==
    User("admin", hash_password("admin123"), "admin", "System Administrator",
         "admin@company.com")

\* first start: the module created the five files holding [] and __main__
\* added the default admin
FreshFiles ==
    [users |-> <<User_to_dict(default_admin)>>, departments |-> <<>>,
     employees |-> <<>>, tasks |-> <<>>, logs |-> <<>>]

SeededLogs ==
    <<[timestamp |-> <<"iso", 1>>, user |-> "admin", action |-> "login",
       details |-> <<"User", "admin", "logged in">>],
      [timestamp |-> <<"iso", 2>>, user |-> "admin", action |-> "user_create",
       details |-> <<"Created user", "m1", "with role", "manager">>],
      [timestamp |-> <<"iso", 3>>, user |-> "admin", action |-> "user_create",
       details |-> <<"Created user", "s1", "with role", "staff">>],
      [timestamp |-> <<"iso", 4>>, user |-> "admin", action |-> "user_create",
       details |-> <<"Created user", "x1", "with role", "staff">>],
      [timestamp |-> <<"iso", 5>>, user |-> "admin", action |-> "dept_create",
       details |-> <<"Created department", "D1">>],
      [timestamp |-> <<"iso", 6>>, user |-> "admin", action |-> "employee_add",
       details |-> <<"Added employee", "E1">>],
      [timestamp |-> <<"iso", 7>>, user |-> "admin", action |-> "task_create",
       details |-> <<"Created task", "T1", "assigned to", "E1">>],
      [timestamp |-> <<"iso", 8>>, user |-> "admin", action |-> "logout",
       details |-> <<"User", "admin", "logged out">>]>>

\* a later start: the files the methods below write, from FreshFiles, on the
\* eight calls SeededLogs records (admin logs in, creates users m1, s1 and x1,
\* department D1, employee E1 and task T1, and logs out, one clock reading
\* each); x1's record was then switched to inactive in users.json, which
\* User.from_dict reads back (no method clears is_active)
SeededFiles ==
    [users |->
        <<[User_to_dict(default_admin) EXCEPT !.last_login = <<"iso", 1>>],
          User_to_dict(User("m1", hash_password("pw"), "manager", TextInput, TextInput)),
          User_to_dict(User("s1", hash_password("pw"), "staff", TextInput, TextInput)),
          [User_to_dict(User("x1", hash_password("pw"), "staff", TextInput, TextInput))
              EXCEPT !.is_active = FALSE]>>,
     departments |->
        <<[dept_id |-> "D1", name |-> TextInput, manager |-> "m1",
           description |-> TextInput, employees |-> <<"E1">>, budget |-> 10000,
           created_at |-> <<"iso", 5>>]>>,
     employees |->
        <<Employee_to_dict(Employee("E1", TextInput, TextInput, "D1", "2025-01-01",
                                    10000, TextInput, TextInput))>>,
     tasks |->
        <<Task_to_dict(Task("T1", TextInput, TextInput, "E1", "admin", "2025-01-01",
                            "low", 7))>>,
     logs |-> SeededLogs]

StartFiles == {FreshFiles, SeededFiles}

\* the clock reading at start-up: later than every reading in the files
BootTime == Len(SeededLogs)
MaxClock == BootTime + MaxOps

\* AdminSystem.__init__ followed by the __main__ block, over the files fs
Boot(fs) ==
    LET loaded == _load_users(fs.users)
        boot_users == IF loaded = <<>> THEN Put(loaded, "admin", default_admin)
                      ELSE loaded
    IN  /\ running' = TRUE
        /\ current_user' = None
        /\ users' = boot_users
        /\ departments' = _load_departments(fs.departments, clock)
        /\ employees' = _load_employees(fs.employees)
        /\ tasks' = _load_tasks(fs.tasks, clock)
        /\ logs' = fs.logs
        /\ f_users' = IF loaded = <<>> THEN _save_users(boot_users) ELSE fs.users
        /\ f_departments' = fs.departments
        /\ f_employees' = fs.employees
        /\ f_tasks' = fs.tasks
        /\ f_logs' = fs.logs
        /\ last' = Ready

Init ==
    \E fs \in StartFiles :
        /\ running = TRUE
        /\ current_user = None
        /\ users = _load_users(fs.users)
        /\ departments = _load_departments(fs.departments, BootTime)
        /\ employees = _load_employees(fs.employees)
        /\ tasks = _load_tasks(fs.tasks, BootTime)
        /\ logs = fs.logs
        /\ f_users = fs.users
        /\ f_departments = fs.departments
        /\ f_employees = fs.employees
        /\ f_tasks = fs.tasks
        /\ f_logs = fs.logs
        /\ clock = BootTime
        /\ last = Ready

\* the process is started again on the files it left
Start ==
    /\ ~running
    /\ Boot([users |-> f_users, departments |-> f_departments,
             employees |-> f_employees, tasks |-> f_tasks, logs |-> f_logs])
    /\ UNCHANGED clock

(***************************************************************************)
(* Authentication                                                          *)
(***************************************************************************)
\* mutant: the password is not verified
login_accepts_any_password(username, password) ==
    /\ Has(users, username)
    /\ Get(users, username).is_active

\* mutant: the active flag is not looked at
login_accepts_inactive(username, password) ==
    /\ Has(users, username)
    /\ verify_password(Get(users, username), password)

\* the condition of login: the user exists, the password verifies, the
\* account is active
login_accepts(username, password) ==
    /\ Has(users, username)
    /\ verify_password(Get(users, username), password)
    /\ Get(users, username).is_active

login(username, password) ==
    /\ running
    /\ last = Ready
    /\ IF login_accepts(username, password)
       THEN /\ clock < MaxClock
            /\ clock' = clock + 1
            /\ current_user' = <<username>>
            /\ users' = Put(users, username,
                            [Get(users, username) EXCEPT !.last_login = datetime(clock')])
            /\ f_users' = _save_users(users')
            /\ _log_activity(current_user', users', "login",
                             <<"User", username, "logged in">>, clock')
            /\ Return("login", "True", <<>>)
            /\ UNCHANGED <<running, departments, employees, tasks,
                           f_departments, f_employees, f_tasks>>
       ELSE /\ Return("login", "Invalid username or password", <<>>)
            /\ UNCHANGED <<running, current_user, memory, files, clock>>

logout ==
    /\ running
    /\ last = Ready
    /\ IF current_user # None
       THEN /\ clock < MaxClock
            /\ clock' = clock + 1
            /\ _log_activity(current_user, users, "logout",
                             <<"User", Get(users, current_user[1]).username, "logged out">>,
                             clock')
            /\ current_user' = None
       ELSE UNCHANGED <<current_user, logs, f_logs, clock>>
    /\ Return("logout", "Logged out successfully", <<>>)
    /\ UNCHANGED <<running, users, departments, employees, tasks,
                   f_users, f_departments, f_employees, f_tasks>>

\* mutant: the current password is not verified
current_password_wrong_never(current) == FALSE

\* change_password's check of the current password
current_password_wrong(current) ==
    ~verify_password(Get(users, current_user[1]), current)

change_password(current, new_pass, confirm) ==
    /\ running
    /\ last = Ready
    /\ IF current_user = None
       THEN /\ Return("change_password", "You must be logged in to change password", <<>>)
            /\ UNCHANGED <<running, current_user, memory, files, clock>>
       ELSE IF current_password_wrong(current)
       THEN /\ Return("change_password", "Incorrect current password", <<>>)
            /\ UNCHANGED <<running, current_user, memory, files, clock>>
       ELSE IF new_pass # confirm
       THEN /\ Return("change_password", "Passwords don't match", <<>>)
            /\ UNCHANGED <<running, current_user, memory, files, clock>>
       ELSE /\ clock < MaxClock
            /\ clock' = clock + 1
            /\ users' = Put(users, current_user[1],
                            [Get(users, current_user[1])
                                EXCEPT !.password_hash = hash_password(new_pass)])
            /\ f_users' = _save_users(users')
            /\ _log_activity(current_user, users', "password_change",
                             <<"User changed their password">>, clock')
            /\ Return("change_password", "Password changed successfully", <<>>)
            /\ UNCHANGED <<running, current_user, departments, employees, tasks,
                           f_departments, f_employees, f_tasks>>

(***************************************************************************)
(* sorted(list, key = ...): Python's stable sort, strings in code-point    *)
(* order                                                                   *)
(***************************************************************************)
StrOrder ==
    <<"", "2024-12-31", "2025-01-01", "D1", "D2", "E1", "E2", "T1", "T2",
      "admin", "m1", "s1", "u2", "x1">>
Rank(s) == CHOOSE i \in 1..Len(StrOrder) : StrOrder[i] = s

RECURSIVE insert_sorted(_, _)
\* x placed after the last element of the sorted list whose key is <= x's
insert_sorted(sorted_list, x) ==
    IF sorted_list = <<>> THEN <<x>>
    ELSE IF sorted_list[Len(sorted_list)].k <= x.k THEN Append(sorted_list, x)
    ELSE Append(insert_sorted(SubSeq(sorted_list, 1, Len(sorted_list) - 1), x),
                sorted_list[Len(sorted_list)])

RECURSIVE sort_keyed(_, _)
sort_keyed(keyed, n) ==
    IF n = 0 THEN <<>> ELSE insert_sorted(sort_keyed(keyed, n - 1), keyed[n])

\* sorted(list, key): keys[i] is the integer rank of key(list[i])
sorted(list, keys) ==
    LET keyed == [i \in 1..Len(list) |-> [k |-> keys[i], v |-> list[i]]]
        done == sort_keyed(keyed, Len(list))
    IN  [i \in 1..Len(list) |-> done[i].v]

\* [x for x in list if test]: keep[i] tells whether list[i] stays
RECURSIVE filter(_, _, _)
filter(list, keep, n) ==
    IF n = 0 THEN <<>>
    ELSE IF keep[n] THEN Append(filter(list, keep, n - 1), list[n])
    ELSE filter(list, keep, n - 1)

\* an optional argument: None, or <<s>> for the string s
Truthy(arg) == arg # None /\ arg # <<"">>

(***************************************************************************)
(* User management                                                         *)
(***************************************************************************)
\* mutant: managers pass too
create_user_denied_manager_passes ==
    current_user = None \/ role_of(current_user, users) \notin {"admin", "manager"}

\* the guard of create_user: no session, or a session that is no admin
create_user_denied == current_user = None \/ role_of(current_user, users) # "admin"

create_user(username, password, confirm, role_input, full_name, email) ==
    /\ running
    /\ last = Ready
    /\ IF create_user_denied
       THEN /\ Return("create_user", "Only admins can create users", <<>>)
            /\ UNCHANGED <<running, current_user, memory, files, clock>>
       ELSE IF Has(users, username)
       THEN /\ Return("create_user", "Username already exists", <<>>)
            /\ UNCHANGED <<running, current_user, memory, files, clock>>
       ELSE IF password # confirm
       THEN /\ Return("create_user", "Passwords don't match", <<>>)
            /\ UNCHANGED <<running, current_user, memory, files, clock>>
       ELSE IF lower(role_input) \notin {"admin", "manager", "staff"}
       THEN /\ Return("create_user", "Invalid role", <<>>)
            /\ UNCHANGED <<running, current_user, memory, files, clock>>
       ELSE /\ clock < MaxClock
            /\ clock' = clock + 1
            /\ users' = Put(users, username,
                            User(username, hash_password(password), lower(role_input),
                                 full_name, email))
            /\ f_users' = _save_users(users')
            /\ _log_activity(current_user, users', "user_create",
                             <<"Created user", username, "with role", lower(role_input)>>,
                             clock')
            /\ Return("create_user", "created successfully", <<>>)
            /\ UNCHANGED <<running, current_user, departments, employees, tasks,
                           f_departments, f_employees, f_tasks>>

list_users_denied ==
    current_user = None \/ role_of(current_user, users) \notin {"admin", "manager"}

list_users ==
    /\ running
    /\ last = Ready
    /\ IF list_users_denied
       THEN Return("list_users", "Permission denied", <<>>)
       ELSE LET us == Values(users)
                ordered == sorted(us, [i \in 1..Len(us) |-> Rank(us[i].username)])
            IN  Return("list_users", "User List",
                       [i \in 1..Len(ordered) |->
                           <<ordered[i].username, ordered[i].role>>])
    /\ UNCHANGED <<running, current_user, memory, files, clock>>

(***************************************************************************)
(* Department management                                                   *)
(***************************************************************************)
\* mutant: the role is not looked at
create_department_denied_session_only == current_user = None

create_department_denied ==
    current_user = None \/ role_of(current_user, users) # "admin"

\* mutant: the manager only has to be a user
manager_invalid_any_role(manager) == ~Has(users, manager)

\* create_department's check of the manager typed in
manager_invalid(manager) ==
    ~Has(users, manager) \/ Get(users, manager).role # "manager"

create_department(dept_id, name, manager, description, budget_input) ==
    /\ running
    /\ last = Ready
    /\ IF create_department_denied
       THEN /\ Return("create_department", "Only admins can create departments", <<>>)
            /\ UNCHANGED <<running, current_user, memory, files, clock>>
       ELSE IF Has(departments, dept_id)
       THEN /\ Return("create_department", "Department ID already exists", <<>>)
            /\ UNCHANGED <<running, current_user, memory, files, clock>>
       ELSE IF manager_invalid(manager)
       THEN /\ Return("create_department",
                      "Invalid manager username or user is not a manager", <<>>)
            /\ UNCHANGED <<running, current_user, memory, files, clock>>
       ELSE IF FloatRaises(budget_input)
       THEN /\ Raise("create_department", "ValueError")
            /\ UNCHANGED <<current_user, memory, files, clock>>
       ELSE /\ clock < MaxClock
            /\ clock' = clock + 1
            /\ departments' =
                  Put(departments, dept_id,
                      [Department(dept_id, name, manager, description, clock')
                          EXCEPT !.budget = float(budget_input)])
            /\ f_departments' = _save_departments(departments')
            /\ _log_activity(current_user, users, "dept_create",
                             <<"Created department", dept_id>>, clock')
            /\ Return("create_department", "created successfully", <<>>)
            /\ UNCHANGED <<running, current_user, users, employees, tasks,
                           f_users, f_employees, f_tasks>>

\* the rows list_departments prints
department_rows ==
    LET ds == Values(departments)
        ordered == sorted(ds, [i \in 1..Len(ds) |-> Rank(ds[i].dept_id)])
    IN  [i \in 1..Len(ordered) |->
            <<ordered[i].dept_id,
              IF Has(users, ordered[i].manager)
              THEN Get(users, ordered[i].manager).full_name ELSE "Unknown",
              Len(ordered[i].employees),
              ordered[i].budget>>]

list_departments ==
    /\ running
    /\ last = Ready
    /\ Return("list_departments", "Department List", department_rows)
    /\ UNCHANGED <<running, current_user, memory, files, clock>>

(***************************************************************************)
(* Employee management                                                     *)
(***************************************************************************)
\* mutant: the role is not looked at
add_employee_denied_session_only == current_user = None

add_employee_denied ==
    current_user = None \/ role_of(current_user, users) \notin {"admin", "manager"}

\* mutant: the id is not looked up
employee_id_exists_never(emp_id) == FALSE

\* add_employee's check of the employee id
employee_id_exists(emp_id) == Has(employees, emp_id)

\* mutant: the employee is stored before the department is looked up
invalid_department_after_store(emp_id, full_name, position, department, hire_date, email, phone) ==
    /\ employees' = Put(employees, emp_id,
                        Employee(emp_id, full_name, position, department, hire_date,
                                 0, email, phone))
    /\ Return("add_employee", "Invalid department ID", department_rows)
    /\ UNCHANGED <<running, current_user, users, departments, tasks, logs, files, clock>>

\* add_employee's return on a department id that is no key of departments
invalid_department(emp_id, full_name, position, department, hire_date, email, phone) ==
    /\ Return("add_employee", "Invalid department ID", department_rows)
    /\ UNCHANGED <<running, current_user, memory, files, clock>>

add_employee(emp_id, full_name, position, department, hire_date, salary_input, email, phone) ==
    /\ running
    /\ last = Ready
    /\ IF add_employee_denied
       THEN /\ Return("add_employee", "Permission denied", <<>>)
            /\ UNCHANGED <<running, current_user, memory, files, clock>>
       ELSE IF employee_id_exists(emp_id)
       THEN /\ Return("add_employee", "Employee ID already exists", <<>>)
            /\ UNCHANGED <<running, current_user, memory, files, clock>>
       ELSE IF ~Has(departments, department)
       THEN invalid_department(emp_id, full_name, position, department, hire_date,
                               email, phone)
       ELSE IF StrptimeRaises(hire_date)
       THEN /\ Return("add_employee", "Invalid date format", department_rows)
            /\ UNCHANGED <<running, current_user, memory, files, clock>>
       ELSE IF FloatRaises(salary_input)
       THEN /\ Raise("add_employee", "ValueError")
            /\ UNCHANGED <<current_user, memory, files, clock>>
       ELSE /\ clock < MaxClock
            /\ clock' = clock + 1
            /\ employees' =
                  Put(employees, emp_id,
                      Employee(emp_id, full_name, position, department, hire_date,
                               float(salary_input), email, phone))
            /\ departments' =
                  Put(departments, department,
                      Department_add_employee(Get(departments, department), emp_id))
            /\ f_employees' = _save_employees(employees')
            /\ f_departments' = _save_departments(departments')
            /\ _log_activity(current_user, users, "employee_add",
                             <<"Added employee", emp_id>>, clock')
            /\ Return("add_employee", "added successfully", department_rows)
            /\ UNCHANGED <<running, current_user, users, tasks, f_users, f_tasks>>

\* the rows list_employees(department_id) prints; <<>> with the message
\* "Invalid department ID" when the department is unknown
employee_listing(department_id) ==
    IF Truthy(department_id) /\ ~Has(departments, department_id[1])
    THEN [out |-> "Invalid department ID", rows |-> <<>>]
    ELSE
      LET listed ==
            IF Truthy(department_id)
            THEN LET ids == Get(departments, department_id[1]).employees
                     there == filter(ids, [i \in 1..Len(ids) |-> Has(employees, ids[i])],
                                     Len(ids))
                 IN  [i \in 1..Len(there) |-> Get(employees, there[i])]
            ELSE Values(employees)
          ordered == sorted(listed, [i \in 1..Len(listed) |-> Rank(listed[i].emp_id)])
      IN  [out |-> "Employee List",
           rows |-> [i \in 1..Len(ordered) |->
                        <<ordered[i].emp_id, ordered[i].department>>]]

list_employees(department_id) ==
    /\ running
    /\ last = Ready
    /\ Return("list_employees", employee_listing(department_id).out,
              employee_listing(department_id).rows)
    /\ UNCHANGED <<running, current_user, memory, files, clock>>

(***************************************************************************)
(* Task management                                                         *)
(***************************************************************************)
\* mutant: the priority is stored as typed, lower-cased
priority_of_as_typed(priority_input) == lower(priority_input)

\* create_task's priority: the one typed, lower-cased, medium when that is
\* none of low, medium and high
priority_of(priority_input) ==
    IF lower(priority_input) \notin {"low", "medium", "high"}
    THEN "medium" ELSE lower(priority_input)

\* mutant: the employee id is not looked up
assignee_unknown_never(assigned_to) == FALSE

\* create_task's check of the employee id typed in
assignee_unknown(assigned_to) == ~Has(employees, assigned_to)

create_task(task_id, title, description, assigned_to, due_date, priority_input) ==
    /\ running
    /\ last = Ready
    /\ IF current_user = None
       THEN /\ Return("create_task", "You must be logged in to create tasks", <<>>)
            /\ UNCHANGED <<running, current_user, memory, files, clock>>
       ELSE IF Has(tasks, task_id)
       THEN /\ Return("create_task", "Task ID already exists", <<>>)
            /\ UNCHANGED <<running, current_user, memory, files, clock>>
       ELSE IF assignee_unknown(assigned_to)
       THEN /\ Return("create_task", "Invalid employee ID", employee_listing(None).rows)
            /\ UNCHANGED <<running, current_user, memory, files, clock>>
       ELSE IF StrptimeRaises(due_date)
       THEN /\ Return("create_task", "Invalid date format", employee_listing(None).rows)
            /\ UNCHANGED <<running, current_user, memory, files, clock>>
       ELSE /\ clock < MaxClock
            /\ clock' = clock + 1
            /\ tasks' =
                  Put(tasks, task_id,
                      Task(task_id, title, description, assigned_to,
                           Get(users, current_user[1]).username, due_date,
                           priority_of(priority_input),
                           clock'))
            /\ f_tasks' = _save_tasks(tasks')
            /\ _log_activity(current_user, users, "task_create",
                             <<"Created task", task_id, "assigned to", assigned_to>>,
                             clock')
            /\ Return("create_task", "created successfully", employee_listing(None).rows)
            /\ UNCHANGED <<running, current_user, users, departments, employees,
                           f_users, f_departments, f_employees>>

\* the rows printed for a list of tasks
task_rows(ts) ==
    LET ordered == sorted(ts, [i \in 1..Len(ts) |-> Rank(ts[i].due_date)])
    IN  [i \in 1..Len(ordered) |->
            <<ordered[i].task_id, ordered[i].assigned_to, ordered[i].due_date,
              ordered[i].priority, ordered[i].status>>]

\* mutant: the tasks are kept in the order of the listing
list_tasks_keeps_order(assigned_to) ==
    /\ running
    /\ last = Ready
    /\ Return("list_tasks", "Task List", task_rows(Values(tasks)))
    /\ tasks' = sorted(tasks, [i \in 1..Len(tasks) |-> Rank(tasks[i].val.due_date)])
    /\ UNCHANGED <<running, current_user, users, departments, employees, logs, files, clock>>

list_tasks(assigned_to) ==
    /\ running
    /\ last = Ready
    /\ LET all == Values(tasks)
           ts == IF Truthy(assigned_to)
                 THEN filter(all, [i \in 1..Len(all) |->
                                      all[i].assigned_to = assigned_to[1]], Len(all))
                 ELSE all
       IN  Return("list_tasks", "Task List", task_rows(ts))
    /\ UNCHANGED <<running, current_user, memory, files, clock>>

\* mutant: every status passes
status_invalid_never(new_status) == FALSE

\* update_task_status's check of the status typed in, lower-cased
status_invalid(new_status) ==
    new_status \notin {"pending", "in_progress", "completed", "cancelled"}

update_task_status(task_id, status_input, comment) ==
    /\ running
    /\ last = Ready
    /\ IF current_user = None
       THEN /\ Return("update_task_status", "You must be logged in to update tasks", <<>>)
            /\ UNCHANGED <<running, current_user, memory, files, clock>>
       ELSE IF ~Has(tasks, task_id)
       THEN /\ Return("update_task_status", "Task not found", <<>>)
            /\ UNCHANGED <<running, current_user, memory, files, clock>>
       ELSE IF status_invalid(lower(status_input))
       THEN /\ Return("update_task_status", "Invalid status", <<>>)
            /\ UNCHANGED <<running, current_user, memory, files, clock>>
       ELSE /\ clock < MaxClock
            /\ comment # "" => Len(Get(tasks, task_id).comments) < MaxComments
            /\ clock' = clock + 1
            /\ LET new_status == lower(status_input)
                   updated == Task_update_status(Get(tasks, task_id), new_status, clock')
                   stamped == IF new_status = "completed"
                              THEN [updated EXCEPT !.completed_at = datetime(clock')]
                              ELSE updated
                   commented == IF comment # ""
                                THEN Task_add_comment(stamped, comment,
                                        Get(users, current_user[1]).username, clock')
                                ELSE stamped
               IN  /\ tasks' = Put(tasks, task_id, commented)
                   /\ f_tasks' = _save_tasks(tasks')
                   /\ _log_activity(current_user, users, "task_update",
                                    <<"Updated task", task_id, "to status", new_status>>,
                                    clock')
            /\ Return("update_task_status", "Task updated successfully", <<>>)
            /\ UNCHANGED <<running, current_user, users, departments, employees,
                           f_users, f_departments, f_employees>>

(***************************************************************************)
(* Reporting                                                               *)
(***************************************************************************)
generate_department_report_denied ==
    current_user = None \/ role_of(current_user, users) \notin {"admin", "manager"}

generate_department_report(dept_id) ==
    /\ running
    /\ last = Ready
    /\ IF generate_department_report_denied
       THEN Return("generate_department_report", "Permission denied", <<>>)
       ELSE IF ~Has(departments, dept_id)
       THEN Return("generate_department_report", "Invalid department ID", department_rows)
       ELSE LET dept == Get(departments, dept_id)
                all == Values(tasks)
                dept_tasks == filter(all, [i \in 1..Len(all) |->
                                              In(all[i].assigned_to, dept.employees)],
                                     Len(all))
            IN  Return("generate_department_report", "Department Report",
                       [manager |-> Get(users, dept.manager).full_name,
                        budget |-> dept.budget,
                        count |-> Len(dept.employees),
                        employees |-> employee_listing(<<dept_id>>).rows,
                        tasks |-> task_rows(dept_tasks)])
    /\ UNCHANGED <<running, current_user, memory, files, clock>>

generate_employee_report(emp_id) ==
    /\ running
    /\ last = Ready
    /\ IF current_user = None
       THEN Return("generate_employee_report", "You must be logged in", <<>>)
       ELSE IF ~Has(employees, emp_id)
       THEN Return("generate_employee_report", "Invalid employee ID",
                   employee_listing(None).rows)
       ELSE LET emp == Get(employees, emp_id)
                all == Values(tasks)
                emp_tasks == filter(all, [i \in 1..Len(all) |-> all[i].assigned_to = emp_id],
                                    Len(all))
            IN  Return("generate_employee_report", "Employee Report",
                       [department |-> IF Has(departments, emp.department)
                                       THEN Get(departments, emp.department).name
                                       ELSE "Unknown",
                        salary |-> emp.salary,
                        tasks |-> task_rows(emp_tasks)])
    /\ UNCHANGED <<running, current_user, memory, files, clock>>

\* entries shown by view_activity_logs
LogPageSize == 50

view_activity_logs_denied ==
    current_user = None \/ role_of(current_user, users) # "admin"

view_activity_logs ==
    /\ running
    /\ last = Ready
    /\ IF view_activity_logs_denied
       THEN Return("view_activity_logs", "Only admins can view activity logs", <<>>)
       ELSE LET newest == sorted(logs, [i \in 1..Len(logs) |-> 0 - logs[i].timestamp[2]])
                shown == SubSeq(newest, 1, IF Len(newest) < LogPageSize
                                           THEN Len(newest) ELSE LogPageSize)
            IN  Return("view_activity_logs", "Activity Logs",
                       [i \in 1..Len(shown) |->
                           <<shown[i].timestamp, shown[i].user, shown[i].action>>])
    /\ UNCHANGED <<running, current_user, memory, files, clock>>

(***************************************************************************)
(* Leaving: choice 0 of main_menu                                          *)
(***************************************************************************)
exit ==
    /\ running
    /\ last = Ready
    /\ IF current_user # None
       THEN /\ clock < MaxClock
            /\ clock' = clock + 1
            /\ _log_activity(current_user, users, "logout",
                             <<"User", Get(users, current_user[1]).username, "logged out">>,
                             clock')
            /\ current_user' = None
       ELSE UNCHANGED <<current_user, logs, f_logs, clock>>
    /\ running' = FALSE
    /\ last' = [op |-> "exit", out |-> "Exiting system...", rows |-> <<>>]
    /\ UNCHANGED <<users, departments, employees, tasks,
                   f_users, f_departments, f_employees, f_tasks>>

\* the caller has read what the call printed and goes on to the next call
\* (main_menu: the next turn of its loop)
next_call ==
    /\ running
    /\ last # Ready
    /\ last' = Ready
    /\ UNCHANGED <<running, current_user, memory, files, clock>>

OptDeptIds == {None, <<"">>} \cup {<<d>> : d \in DeptIds}
OptEmpIds == {None, <<"">>} \cup {<<e>> : e \in EmpIds}

Next ==
    \/ Start
    \/ \E in \in LoginInputs : login(in[1], in[2])
    \/ logout
    \/ \E in \in ChangePasswordInputs : change_password(in[1], in[2], in[3])
    \/ \E in \in CreateUserInputs :
          create_user(in[1], in[2], in[3], in[4], TextInput, TextInput)
    \/ list_users
    \/ \E in \in CreateDepartmentInputs :
          create_department(in[1], TextInput, in[2], TextInput, in[3])
    \/ list_departments
    \/ \E in \in AddEmployeeInputs :
          add_employee(in[1], TextInput, TextInput, in[2], in[3], in[4],
                       TextInput, TextInput)
    \/ \E department_id \in OptDeptIds : list_employees(department_id)
    \/ \E in \in CreateTaskInputs :
          create_task(in[1], TextInput, TextInput, in[2], in[3], in[4])
    \/ \E assigned_to \in OptEmpIds : list_tasks(assigned_to)
    \/ \E in \in UpdateTaskStatusInputs : update_task_status(in[1], in[2], in[3])
    \/ \E dept_id \in DeptIds : generate_department_report(dept_id)
    \/ \E emp_id \in EmpIds : generate_employee_report(emp_id)
    \/ view_activity_logs
    \/ exit
    \/ next_call

Spec == Init /\ [][Next]_vars

(***************************************************************************)
(* Properties                                                              *)
(***************************************************************************)
\* the role of the session, "none" without a session
SessionRole == IF current_user = None THEN "none" ELSE role_of(current_user, users)

\* a call of op starts in this step
Calls(op) == last = Ready /\ last'.op = op

\* the roles the authorization table allows for the gated operations
PermittedRoles(op) ==
    CASE op \in {"create_user", "create_department", "view_activity_logs"} -> {"admin"}
      [] op \in {"add_employee", "list_users", "generate_department_report"} ->
            {"admin", "manager"}

GatedOps ==
    {"create_user", "create_department", "add_employee", "list_users",
     "generate_department_report", "view_activity_logs"}

\* what each gated operation prints when it denies the call
Denial(op) ==
    CASE op = "create_user" -> "Only admins can create users"
      [] op = "create_department" -> "Only admins can create departments"
      [] op = "view_activity_logs" -> "Only admins can view activity logs"
      [] OTHER -> "Permission denied"

\* C1: a gated operation called with no session, or with a session whose role
\* the table does not allow, leaves the four collections and the log as they
\* were, in memory and in the files.
C1_DeniedCallChangesNothing ==
    [][\A op \in GatedOps :
          (Calls(op) /\ SessionRole \notin PermittedRoles(op))
              => UNCHANGED <<memory, files>>]_vars

\* C1 witness: a staff session called create_department and was denied.
C1_Witness ==
    /\ last.op = "create_department"
    /\ last.out = "Only admins can create departments"
    /\ SessionRole = "staff"

\* C2: a user or a department is added, or the activity log is shown, only in
\* a step made under an admin session; under a manager or staff session
\* create_user, create_department and view_activity_logs print their denial.
C2_AdminOnly ==
    [][/\ (\/ Len(users') > Len(users)
           \/ Len(departments') > Len(departments)
           \/ (Calls("view_activity_logs") /\ last'.out = "Activity Logs"))
          => (last = Ready /\ SessionRole = "admin")
       /\ \A op \in {"create_user", "create_department", "view_activity_logs"} :
            (Calls(op) /\ SessionRole \in {"manager", "staff"})
                => last'.out = Denial(op)]_vars

\* C2 witness: an admin session created user u2.
C2_Witness ==
    /\ last.op = "create_user"
    /\ last.out = "created successfully"
    /\ SessionRole = "admin"
    /\ Has(users, "u2")

\* C3: an employee is added only in a step made under an admin or manager
\* session; add_employee and generate_department_report print "Permission
\* denied" exactly when the session's role is neither admin nor manager.
C3_AdminOrManager ==
    [][/\ Len(employees') > Len(employees)
          => (last = Ready /\ SessionRole \in {"admin", "manager"})
       /\ \A op \in {"add_employee", "generate_department_report"} :
            Calls(op) => (last'.out = "Permission denied"
                            <=> SessionRole \notin {"admin", "manager"})]_vars

\* C3 witness: a manager session added employee E2.
C3_Witness ==
    /\ last.op = "add_employee"
    /\ last.out = "added successfully"
    /\ SessionRole = "manager"
    /\ Has(employees, "E2")

\* C4: a staff session that calls list_employees, with or without a
\* department id, is denied and gets no listing.
C4_StaffListEmployeesDenied ==
    (last.op = "list_employees" /\ SessionRole = "staff")
        => (last.out = "Permission denied" /\ last.rows = <<>>)

\* the user stored under username accepts password: it is active and its
\* stored hash is the hash of password
Credential(us, username, password) ==
    /\ Has(us, username)
    /\ Get(us, username).is_active
    /\ Get(us, username).password_hash = hash_password(password)

\* C5: create_user(username, password) stores an active user whose hash is
\* that of password; while a user's stored credential is (username, password),
\* login(username, password) returns True, binds the session to that user and
\* gives it a new last-login, and login(username, other password) fails and
\* leaves the session as it was.
C5_CreatedCredentialsLogIn ==
    [][/\ \A in \in CreateUserInputs :
            (/\ Calls("create_user")
             /\ create_user(in[1], in[2], in[3], in[4], TextInput, TextInput)
             /\ last'.out = "created successfully")
                => /\ ~Has(users, in[1])
                   /\ Credential(users', in[1], in[2])
                   /\ Get(users', in[1]).last_login = None
       /\ \A in \in LoginInputs :
            (Calls("login") /\ login(in[1], in[2]) /\ Has(users, in[1])
                /\ Get(users, in[1]).is_active)
                => IF Credential(users, in[1], in[2])
                   THEN /\ last'.out = "True"
                        /\ current_user' = <<in[1]>>
                        /\ Get(users', in[1]).last_login = datetime(clock')
                        /\ Get(users', in[1]).last_login # Get(users, in[1]).last_login
                        /\ clock' > clock
                   ELSE /\ last'.out = "Invalid username or password"
                        /\ current_user' = current_user]_vars

\* C5 witness: u2, created in this run, has logged in.
C5_Witness ==
    /\ last.op = "login"
    /\ last.out = "True"
    /\ current_user = <<"u2">>
    /\ Get(users, "u2").last_login = datetime(clock)

\* C6: login returns True only for a username that is a key of users, with a
\* password whose hash is the stored one, on an active account; a login that
\* does not return True leaves the session, every user (so every last-login),
\* the other collections, the log and the files as they were.
C6_LoginOnlyIfValid ==
    [][\A in \in LoginInputs :
          (Calls("login") /\ login(in[1], in[2]))
              => /\ last'.out = "True" => Credential(users, in[1], in[2])
                 /\ last'.out # "True" => UNCHANGED <<current_user, memory, files>>]_vars

\* C6 witness: a login failed while a session was open, and x1, the inactive
\* account, is there to be refused.
C6_Witness ==
    /\ last.op = "login"
    /\ last.out = "Invalid username or password"
    /\ current_user # None
    /\ Has(users, "x1")
    /\ ~Get(users, "x1").is_active

\* C7: with a session open, change_password fails when the current password
\* typed does not verify or the two new entries differ, and then leaves the
\* users (so the stored hash) and the log as they were, in memory and in the
\* files; otherwise the stored hash becomes the hash of the new password, so
\* that the session user's credential is the new password and no longer the
\* old one when the two differ.
C7_ChangePassword ==
    [][\A in \in ChangePasswordInputs :
          (Calls("change_password") /\ change_password(in[1], in[2], in[3])
              /\ current_user # None)
              => IF \/ Get(users, current_user[1]).password_hash # hash_password(in[1])
                    \/ in[2] # in[3]
                 THEN /\ last'.out \in {"Incorrect current password",
                                        "Passwords don't match"}
                      /\ UNCHANGED <<users, f_users, logs, f_logs>>
                 ELSE /\ last'.out = "Password changed successfully"
                      /\ Credential(users', current_user[1], in[2])
                      /\ in[1] # in[2] => ~Credential(users', current_user[1], in[1])
                      /\ f_users' = _save_users(users')]_vars

\* C7 witness: admin changed the password to pw and has logged in with it.
C7_Witness ==
    /\ last.op = "login"
    /\ last.out = "True"
    /\ current_user = <<"admin">>
    /\ Credential(users, "admin", "pw")
    /\ \E i \in 1..Len(logs) : logs[i].action = "password_change" /\ logs[i].user = "admin"

\* no two entries of a collection carry the same identifier, and each entity
\* is stored under its own identifier
UniqueIds ==
    /\ \A i, j \in 1..Len(users) :
          /\ users[i].key = users[i].val.username
          /\ users[i].key = users[j].key => i = j
    /\ \A i, j \in 1..Len(departments) :
          /\ departments[i].key = departments[i].val.dept_id
          /\ departments[i].key = departments[j].key => i = j
    /\ \A i, j \in 1..Len(employees) :
          /\ employees[i].key = employees[i].val.emp_id
          /\ employees[i].key = employees[j].key => i = j
    /\ \A i, j \in 1..Len(tasks) :
          /\ tasks[i].key = tasks[i].val.task_id
          /\ tasks[i].key = tasks[j].key => i = j
    /\ \A i, j \in 1..Len(f_users) : f_users[i].username = f_users[j].username => i = j
    /\ \A i, j \in 1..Len(f_departments) :
          f_departments[i].dept_id = f_departments[j].dept_id => i = j
    /\ \A i, j \in 1..Len(f_employees) :
          f_employees[i].emp_id = f_employees[j].emp_id => i = j
    /\ \A i, j \in 1..Len(f_tasks) : f_tasks[i].task_id = f_tasks[j].task_id => i = j

\* C8: create_user, create_department, add_employee and create_task called
\* with an identifier that is already a key of their collection do not
\* succeed and leave every collection, the log and the files as they were;
\* identifiers are unique within each collection before and after every step.
C8_DuplicateIdRejected ==
    [][/\ UniqueIds /\ UniqueIds'
       /\ \A in \in CreateUserInputs :
            (/\ Calls("create_user") /\ Has(users, in[1])
             /\ create_user(in[1], in[2], in[3], in[4], TextInput, TextInput))
                => /\ last'.out \in {"Username already exists", Denial("create_user")}
                   /\ UNCHANGED <<memory, files>>
       /\ \A in \in CreateDepartmentInputs :
            (/\ Calls("create_department") /\ Has(departments, in[1])
             /\ create_department(in[1], TextInput, in[2], TextInput, in[3]))
                => /\ last'.out \in {"Department ID already exists",
                                     Denial("create_department")}
                   /\ UNCHANGED <<memory, files>>
       /\ \A in \in AddEmployeeInputs :
            (/\ Calls("add_employee") /\ Has(employees, in[1])
             /\ add_employee(in[1], TextInput, TextInput, in[2], in[3], in[4],
                             TextInput, TextInput))
                => /\ last'.out \in {"Employee ID already exists", "Permission denied"}
                   /\ UNCHANGED <<memory, files>>
       /\ \A in \in CreateTaskInputs :
            (/\ Calls("create_task") /\ Has(tasks, in[1])
             /\ create_task(in[1], TextInput, TextInput, in[2], in[3], in[4]))
                => /\ last'.out \in {"Task ID already exists",
                                     "You must be logged in to create tasks"}
                   /\ UNCHANGED <<memory, files>>]_vars

\* C8 witness: a manager session called add_employee with the id of E1.
C8_Witness ==
    /\ last.op = "add_employee"
    /\ last.out = "Employee ID already exists"
    /\ SessionRole = "manager"
    /\ Has(employees, "E1")

\* C9: add_employee called with a department id that is no key of the
\* Department collection does not succeed and leaves the Employee collection
\* and every department (so every employee list) as they were, in memory and
\* in the files.
C9_UnknownDepartmentRejected ==
    [][\A in \in AddEmployeeInputs :
          (/\ Calls("add_employee") /\ ~Has(departments, in[2])
           /\ add_employee(in[1], TextInput, TextInput, in[2], in[3], in[4],
                           TextInput, TextInput))
              => /\ last'.out # "added successfully"
                 /\ UNCHANGED <<employees, departments, f_employees, f_departments>>]_vars

\* C9 witness: an admin session called add_employee for a new employee id with
\* a department id that does not exist.
C9_Witness ==
    /\ last.op = "add_employee"
    /\ last.out = "Invalid department ID"
    /\ SessionRole = "admin"
    /\ ~Has(departments, "D2")
    /\ ~Has(employees, "E2")

\* C10: update_task_status given a status that, lower-cased as the method
\* reads it, is none of pending, in_progress, completed and cancelled does not
\* succeed and leaves the tasks (status, completion timestamp, comments), the
\* tasks file and the log as they were; Task.update_status given such a
\* status returns the task as it was.
C10_InvalidStatusRejected ==
    [][/\ \A in \in UpdateTaskStatusInputs :
            (/\ Calls("update_task_status")
             /\ lower(in[2]) \notin {"pending", "in_progress", "completed", "cancelled"}
             /\ update_task_status(in[1], in[2], in[3]))
                => /\ last'.out # "Task updated successfully"
                   /\ UNCHANGED <<tasks, f_tasks, logs, f_logs>>
       /\ \A i \in 1..Len(tasks) :
            Task_update_status(tasks[i].val, "bogus", clock) = tasks[i].val]_vars

\* C10 witness: with a session open, update_task_status refused a status for
\* the existing task T1.
C10_Witness ==
    /\ last.op = "update_task_status"
    /\ last.out = "Invalid status"
    /\ current_user # None
    /\ Has(tasks, "T1")

\* the log holds the entry update_task_status wrote when it moved task_id to
\* completed at the clock reading at
CompletionLogged(task_id, at) ==
    \E i \in 1..Len(logs) :
        /\ logs[i].action = "task_update"
        /\ logs[i].details = <<"Updated task", task_id, "to status", "completed">>
        /\ logs[i].timestamp = isoformat(at)

\* a completed task carries a completion timestamp, and a completion timestamp
\* is the reading of a logged move of that task to completed
CompletionStamped ==
    \A i \in 1..Len(tasks) :
        /\ tasks[i].val.status = "completed" => tasks[i].val.completed_at # None
        /\ tasks[i].val.completed_at # None
              => CompletionLogged(tasks[i].key, tasks[i].val.completed_at)

\* C11: a task is created pending with no completion timestamp; a successful
\* update_task_status to completed sets the timestamp to the reading of that
\* call, and to any other status leaves the timestamp as it was; no step
\* clears a timestamp, and a timestamp appears only in a step that moves the
\* task to completed. So before and after every step a completed task has a
\* timestamp and every timestamp is that of a logged move to completed.
C11_CompletionTimestamp ==
    [][/\ CompletionStamped /\ CompletionStamped'
       /\ \A in \in CreateTaskInputs :
            (/\ Calls("create_task")
             /\ create_task(in[1], TextInput, TextInput, in[2], in[3], in[4])
             /\ last'.out = "created successfully")
                => /\ Get(tasks', in[1]).status = "pending"
                   /\ Get(tasks', in[1]).completed_at = None
       /\ \A in \in UpdateTaskStatusInputs :
            (/\ Calls("update_task_status")
             /\ update_task_status(in[1], in[2], in[3])
             /\ last'.out = "Task updated successfully")
                => IF lower(in[2]) = "completed"
                   THEN /\ Get(tasks', in[1]).status = "completed"
                        /\ Get(tasks', in[1]).completed_at = datetime(clock')
                        /\ Get(tasks', in[1]).completed_at # None
                   ELSE /\ Get(tasks', in[1]).status = lower(in[2])
                        /\ Get(tasks', in[1]).completed_at
                              = Get(tasks, in[1]).completed_at
       /\ \A i \in 1..Len(tasks) :
            /\ Has(tasks', tasks[i].key)
            /\ tasks[i].val.completed_at # None
                  => Get(tasks', tasks[i].key).completed_at # None
            /\ (/\ tasks[i].val.completed_at = None
                /\ Get(tasks', tasks[i].key).completed_at # None)
                  => /\ Calls("update_task_status")
                     /\ Get(tasks', tasks[i].key).status = "completed"]_vars

\* C11 witness: T1 was completed and then moved back to pending, and still
\* carries its completion timestamp.
C11_Witness ==
    /\ last.op = "update_task_status"
    /\ last.out = "Task updated successfully"
    /\ Has(tasks, "T1")
    /\ Get(tasks, "T1").status = "pending"
    /\ Get(tasks, "T1").completed_at # None

\* the places <<i, j>> where emp_id stands in a department's employee list
ListPlaces(ds, emp_id) ==
    UNION {{<<i, j>> : j \in {k \in 1..Len(ds[i].val.employees) :
                                ds[i].val.employees[k] = emp_id}} :
           i \in 1..Len(ds)}

\* every id in a department's list is an employee, and every employee stands
\* once in the list of the department its own record names and nowhere else
EmployeesListed ==
    /\ \A i \in 1..Len(departments) :
          \A j \in 1..Len(departments[i].val.employees) :
              Has(employees, departments[i].val.employees[j])
    /\ \A k \in 1..Len(employees) :
          /\ Cardinality(ListPlaces(departments, employees[k].key)) = 1
          /\ \A p \in ListPlaces(departments, employees[k].key) :
                departments[p[1]].key = employees[k].val.department

\* C12: before and after every step, each id in a department's employee list
\* is a key of employees and each employee stands exactly once, in the list of
\* the department its record names; a successful add_employee(E, D) puts E in
\* D's list, which grows by one, and leaves every other department as it was.
C12_EmployeeListsMatch ==
    [][/\ EmployeesListed /\ EmployeesListed'
       /\ \A in \in AddEmployeeInputs :
            (/\ Calls("add_employee")
             /\ add_employee(in[1], TextInput, TextInput, in[2], in[3], in[4],
                             TextInput, TextInput)
             /\ last'.out = "added successfully")
                => /\ Get(employees', in[1]).department = in[2]
                   /\ In(in[1], Get(departments', in[2]).employees)
                   /\ Len(Get(departments', in[2]).employees)
                         = Len(Get(departments, in[2]).employees) + 1
                   /\ Len(departments') = Len(departments)
                   /\ \A i \in 1..Len(departments) :
                         departments[i].key # in[2]
                            => departments'[i] = departments[i]]_vars

\* C12 witness: E2 has been added to D2 while D1 lists E1.
C12_Witness ==
    /\ last.op = "add_employee"
    /\ last.out = "added successfully"
    /\ Has(departments, "D1") /\ Has(departments, "D2")
    /\ Get(departments, "D1").employees = <<"E1">>
    /\ Get(departments, "D2").employees = <<"E2">>
    /\ Get(employees, "E2").department = "D2"

\* every department's manager is a user whose role is manager
ManagersAreManagers ==
    \A i \in 1..Len(departments) :
        /\ Has(users, departments[i].val.manager)
        /\ Get(users, departments[i].val.manager).role = "manager"

\* C13: before and after every step the manager of every department is a key
\* of users with role manager; create_department called with a manager that
\* is no user, or a user of another role, does not succeed and leaves the
\* departments as they were, in memory and in the file.
C13_ManagerIsManager ==
    [][/\ ManagersAreManagers /\ ManagersAreManagers'
       /\ \A in \in CreateDepartmentInputs :
            (/\ Calls("create_department")
             /\ create_department(in[1], TextInput, in[2], TextInput, in[3])
             /\ (~Has(users, in[2]) \/ Get(users, in[2]).role # "manager"))
                => /\ last'.out # "created successfully"
                   /\ UNCHANGED <<departments, f_departments>>]_vars

\* C13 witness: an admin session named the staff user s1 as manager of the
\* new department D2 and was refused, while D1 is managed by m1.
C13_Witness ==
    /\ last.op = "create_department"
    /\ last.out = "Invalid manager username or user is not a manager"
    /\ SessionRole = "admin"
    /\ Has(users, "s1") /\ Get(users, "s1").role = "staff"
    /\ ~Has(departments, "D2")
    /\ Has(departments, "D1") /\ Get(departments, "D1").manager = "m1"

\* every task is assigned to an employee and was assigned by a user
TasksReferToPeople ==
    \A i \in 1..Len(tasks) :
        /\ Has(employees, tasks[i].val.assigned_to)
        /\ Has(users, tasks[i].val.assigned_by)

\* C14: before and after every step the assignee of every task is a key of
\* employees and its assigner a key of users; a successful create_task
\* records the session user as assigner and the employee id given as
\* assignee; create_task called with an id that is no key of employees does
\* not succeed and leaves the tasks as they were, in memory and in the file.
C14_TaskReferences ==
    [][/\ TasksReferToPeople /\ TasksReferToPeople'
       /\ \A in \in CreateTaskInputs :
            (/\ Calls("create_task")
             /\ create_task(in[1], TextInput, TextInput, in[2], in[3], in[4]))
                => /\ last'.out = "created successfully"
                      => /\ current_user # None
                         /\ Get(tasks', in[1]).assigned_by = current_user[1]
                         /\ Get(tasks', in[1]).assigned_to = in[2]
                         /\ Has(employees, in[2])
                   /\ ~Has(employees, in[2])
                      => /\ last'.out # "created successfully"
                         /\ UNCHANGED <<tasks, f_tasks>>]_vars

\* C14 witness: with a session open, create_task refused a new task id given
\* for E2, which is no employee, and T1 stands assigned to E1 by admin.
C14_Witness ==
    /\ last.op = "create_task"
    /\ last.out = "Invalid employee ID"
    /\ current_user # None
    /\ ~Has(employees, "E2")
    /\ Has(tasks, "T1") /\ ~Has(tasks, "T2")
    /\ Get(tasks, "T1").assigned_to = "E1"
    /\ Get(tasks, "T1").assigned_by = "admin"

ListingOps == {"list_users", "list_departments", "list_employees", "list_tasks"}

\* C15: a call of list_users, list_departments, list_employees or list_tasks,
\* under any session or none, leaves the four collections, the log, the five
\* files and the session as they were, and the process running.
C15_ListingsChangeNothing ==
    [][\A op \in ListingOps :
          Calls(op) => UNCHANGED <<memory, files, current_user, running>>]_vars

\* C15 witness: a staff session listed two tasks, the second created in this
\* run.
C15_Witness ==
    /\ last.op = "list_tasks"
    /\ Len(last.rows) = 2
    /\ SessionRole = "staff"
    /\ Len(logs) > Len(SeededLogs)

\* C16: for each of the four collections, what _load_data builds from what
\* _save_data writes for the collection in memory is that collection: the
\* same keys in the same order, each the identifier of its entity, and every
\* entity equal field for field (timestamps through isoformat and
\* fromisoformat, a task's comments, a department's employee list).
C16_SaveLoadRoundTrip ==
    /\ _load_users(_save_users(users)) = users
    /\ _load_departments(_save_departments(departments), clock) = departments
    /\ _load_employees(_save_employees(employees)) = employees
    /\ _load_tasks(_save_tasks(tasks), clock) = tasks
    /\ \A i \in 1..Len(users) : users[i].key = users[i].val.username
    /\ \A i \in 1..Len(departments) : departments[i].key = departments[i].val.dept_id
    /\ \A i \in 1..Len(employees) : employees[i].key = employees[i].val.emp_id
    /\ \A i \in 1..Len(tasks) : tasks[i].key = tasks[i].val.task_id

\* C16 witness: the tasks file was just written with T1 completed and
\* commented, a user has a last login and a department lists an employee, and
\* loading the written files gives the collections in memory.
C16_Witness ==
    /\ last.op = "update_task_status"
    /\ last.out = "Task updated successfully"
    /\ Get(tasks, "T1").completed_at # None
    /\ Get(tasks, "T1").comments # <<>>
    /\ Get(users, "admin").last_login # None
    /\ Get(departments, "D1").employees # <<>>
    /\ f_tasks = _save_tasks(tasks)
    /\ _load_tasks(f_tasks, clock) = tasks
    /\ _load_users(f_users) = users

(***************************************************************************)
(* Runs in which a save may be cut short                                   *)
(***************************************************************************)
\* add_employee stopped between its two saves: employees.json is written
\* (line 446) and the process ends before departments.json is (line 447),
\* killed or on an OSError of the second open or json.dump
add_employee_interrupted(emp_id, full_name, position, department, hire_date, salary_input, email, phone) ==
    /\ running
    /\ last = Ready
    /\ ~add_employee_denied
    /\ ~employee_id_exists(emp_id)
    /\ Has(departments, department)
    /\ ~StrptimeRaises(hire_date)
    /\ ~FloatRaises(salary_input)
    /\ employees' =
          Put(employees, emp_id,
              Employee(emp_id, full_name, position, department, hire_date,
                       float(salary_input), email, phone))
    /\ departments' =
          Put(departments, department,
              Department_add_employee(Get(departments, department), emp_id))
    /\ f_employees' = _save_employees(employees')
    /\ Raise("add_employee", "OSError")
    /\ UNCHANGED <<current_user, users, tasks, logs,
                   f_users, f_departments, f_tasks, f_logs, clock>>

NextInterrupted ==
    \/ Next
    \/ \E in \in AddEmployeeInputs :
          add_employee_interrupted(in[1], TextInput, TextInput, in[2], in[3], in[4],
                                   TextInput, TextInput)

SpecInterrupted == Init /\ [][NextInterrupted]_vars

\* C17: every employee in employees.json is listed, in departments.json, by
\* the department its record names: add_employee has written both files or
\* neither, also when the run stops between the two saves.
C17_BothFilesOrNeither ==
    \A i \in 1..Len(f_employees) :
        \E j \in 1..Len(f_departments) :
            /\ f_departments[j].dept_id = f_employees[i].department
            /\ In(f_employees[i].emp_id, f_departments[j].employees)

\* C18: a call that fails is recoverable: after any call but the exit choice
\* the process is still running, so that the next call can be made; this
\* includes create_department given a budget that is no number and
\* add_employee given a salary that is no number or a malformed hire date.
C18_FailedCallRecoverable ==
    last.op # "exit" => running

\* C19: the budget of every department and the salary of every employee is
\* zero or more; create_department given a negative budget and add_employee
\* given a negative salary store nothing.
C19_AmountsNonNegative ==
    /\ \A i \in 1..Len(departments) : departments[i].val.budget >= 0
    /\ \A i \in 1..Len(employees) : employees[i].val.salary >= 0

\* s is the beginning of t
IsPrefix(s, t) == Len(s) <= Len(t) /\ SubSeq(t, 1, Len(s)) = s

\* C20: in every step, a start of the process on the files it left included,
\* the log in memory before the step is the beginning of the log after it,
\* and so is activity_logs.json; a step adds at most one entry, at the end.
C20_LogAppendOnly ==
    [][/\ IsPrefix(logs, logs')
       /\ IsPrefix(f_logs, f_logs')
       /\ Len(logs') <= Len(logs) + 1
       /\ Len(f_logs') <= Len(f_logs) + 1]_vars

\* C20 witness: two entries were appended to the eight of the earlier run, in
\* memory and in the file.
C20_Witness ==
    /\ Len(logs) = Len(SeededLogs) + 2
    /\ SubSeq(logs, 1, Len(SeededLogs)) = SeededLogs
    /\ f_logs = logs
    /\ last.op \notin {"", "login"}
    /\ logs[Len(logs)].action # "login"

(***************************************************************************)
(* The statements of a successful call, one step each: the assignments to  *)
(* the collections, then the _save_data calls, then _log_activity. Between *)
(* the steps `last` holds the position: out is "mutated" or "persisted"    *)
(* and rows is <<action, details, message, rows>>, what _log_activity and  *)
(* the final print are going to be given.                                  *)
(***************************************************************************)
MutatingOps ==
    {"login", "change_password", "create_user", "create_department",
     "add_employee", "create_task", "update_task_status"}

Positions == {"mutated", "persisted"}

\* the call of op has made its assignments; action, details, out and rows are
\* what it will log and print
Mutated(op, action, details, out, rows) ==
    last' = [op |-> op, out |-> "mutated", rows |-> <<action, details, out, rows>>]

\* login, lines 275-276
login_mutate(username, password) ==
    /\ running
    /\ last = Ready
    /\ login_accepts(username, password)
    /\ clock < MaxClock
    /\ clock' = clock + 1
    /\ current_user' = <<username>>
    /\ users' = Put(users, username,
                    [Get(users, username) EXCEPT !.last_login = datetime(clock')])
    /\ Mutated("login", "login", <<"User", username, "logged in">>, "True", <<>>)
    /\ UNCHANGED <<running, departments, employees, tasks, logs, files>>

\* change_password, line 305
change_password_mutate(current, new_pass, confirm) ==
    /\ running
    /\ last = Ready
    /\ current_user # None
    /\ ~current_password_wrong(current)
    /\ new_pass = confirm
    /\ clock < MaxClock
    /\ clock' = clock + 1
    /\ users' = Put(users, current_user[1],
                    [Get(users, current_user[1])
                        EXCEPT !.password_hash = hash_password(new_pass)])
    /\ Mutated("change_password", "password_change", <<"User changed their password">>,
               "Password changed successfully", <<>>)
    /\ UNCHANGED <<running, current_user, departments, employees, tasks, logs, files>>

\* mutant: the entry is logged with the assignment, before users.json is written
create_user_mutate_logs_first(username, password, confirm, role_input, full_name, email) ==
    /\ running
    /\ last = Ready
    /\ ~create_user_denied
    /\ ~Has(users, username)
    /\ password = confirm
    /\ lower(role_input) \in {"admin", "manager", "staff"}
    /\ clock < MaxClock
    /\ clock' = clock + 1
    /\ users' = Put(users, username,
                    User(username, hash_password(password), lower(role_input),
                         full_name, email))
    /\ _log_activity(current_user, users', "user_create",
                     <<"Created user", username, "with role", lower(role_input)>>, clock')
    /\ Mutated("create_user", "user_create",
               <<"Created user", username, "with role", lower(role_input)>>,
               "created successfully", <<>>)
    /\ UNCHANGED <<running, current_user, departments, employees, tasks,
                   f_users, f_departments, f_employees, f_tasks>>

\* create_user, lines 337-344
create_user_mutate(username, password, confirm, role_input, full_name, email) ==
    /\ running
    /\ last = Ready
    /\ ~create_user_denied
    /\ ~Has(users, username)
    /\ password = confirm
    /\ lower(role_input) \in {"admin", "manager", "staff"}
    /\ clock < MaxClock
    /\ clock' = clock + 1
    /\ users' = Put(users, username,
                    User(username, hash_password(password), lower(role_input),
                         full_name, email))
    /\ Mutated("create_user", "user_create",
               <<"Created user", username, "with role", lower(role_input)>>,
               "created successfully", <<>>)
    /\ UNCHANGED <<running, current_user, departments, employees, tasks, logs, files>>

\* create_department, lines 381-388
create_department_mutate(dept_id, name, manager, description, budget_input) ==
    /\ running
    /\ last = Ready
    /\ ~create_department_denied
    /\ ~Has(departments, dept_id)
    /\ ~manager_invalid(manager)
    /\ ~FloatRaises(budget_input)
    /\ clock < MaxClock
    /\ clock' = clock + 1
    /\ departments' =
          Put(departments, dept_id,
              [Department(dept_id, name, manager, description, clock')
                  EXCEPT !.budget = float(budget_input)])
    /\ Mutated("create_department", "dept_create", <<"Created department", dept_id>>,
               "created successfully", <<>>)
    /\ UNCHANGED <<running, current_user, users, employees, tasks, logs, files>>

\* add_employee, lines 433-444
add_employee_mutate(emp_id, full_name, position, department, hire_date, salary_input, email, phone) ==
    /\ running
    /\ last = Ready
    /\ ~add_employee_denied
    /\ ~employee_id_exists(emp_id)
    /\ Has(departments, department)
    /\ ~StrptimeRaises(hire_date)
    /\ ~FloatRaises(salary_input)
    /\ clock < MaxClock
    /\ clock' = clock + 1
    /\ employees' =
          Put(employees, emp_id,
              Employee(emp_id, full_name, position, department, hire_date,
                       float(salary_input), email, phone))
    /\ departments' =
          Put(departments, department,
              Department_add_employee(Get(departments, department), emp_id))
    /\ Mutated("add_employee", "employee_add", <<"Added employee", emp_id>>,
               "added successfully", department_rows)
    /\ UNCHANGED <<running, current_user, users, tasks, logs, files>>

\* create_task, lines 500-509
create_task_mutate(task_id, title, description, assigned_to, due_date, priority_input) ==
    /\ running
    /\ last = Ready
    /\ current_user # None
    /\ ~Has(tasks, task_id)
    /\ ~assignee_unknown(assigned_to)
    /\ ~StrptimeRaises(due_date)
    /\ clock < MaxClock
    /\ clock' = clock + 1
    /\ tasks' =
          Put(tasks, task_id,
              Task(task_id, title, description, assigned_to,
                   Get(users, current_user[1]).username, due_date,
                   priority_of(priority_input),
                   clock'))
    /\ Mutated("create_task", "task_create",
               <<"Created task", task_id, "assigned to", assigned_to>>,
               "created successfully", employee_listing(None).rows)
    /\ UNCHANGED <<running, current_user, users, departments, employees, logs, files>>

\* update_task_status, lines 548-554
update_task_status_mutate(task_id, status_input, comment) ==
    /\ running
    /\ last = Ready
    /\ current_user # None
    /\ Has(tasks, task_id)
    /\ ~status_invalid(lower(status_input))
    /\ clock < MaxClock
    /\ comment # "" => Len(Get(tasks, task_id).comments) < MaxComments
    /\ clock' = clock + 1
    /\ LET new_status == lower(status_input)
           updated == Task_update_status(Get(tasks, task_id), new_status, clock')
           stamped == IF new_status = "completed"
                      THEN [updated EXCEPT !.completed_at = datetime(clock')]
                      ELSE updated
           commented == IF comment # ""
                        THEN Task_add_comment(stamped, comment,
                                Get(users, current_user[1]).username, clock')
                        ELSE stamped
       IN  /\ tasks' = Put(tasks, task_id, commented)
           /\ Mutated("update_task_status", "task_update",
                      <<"Updated task", task_id, "to status", new_status>>,
                      "Task updated successfully", <<>>)
    /\ UNCHANGED <<running, current_user, users, departments, employees, logs, files>>

\* the collections each operation saves
Touched(op) ==
    CASE op \in {"login", "change_password", "create_user"} -> {"users"}
      [] op = "create_department" -> {"departments"}
      [] op = "add_employee" -> {"employees", "departments"}
      [] op \in {"create_task", "update_task_status"} -> {"tasks"}

\* the _save_data calls of the operation under way
persist ==
    /\ running
    /\ last.out = "mutated"
    /\ f_users' = IF "users" \in Touched(last.op) THEN _save_users(users) ELSE f_users
    /\ f_departments' = IF "departments" \in Touched(last.op)
                        THEN _save_departments(departments) ELSE f_departments
    /\ f_employees' = IF "employees" \in Touched(last.op)
                      THEN _save_employees(employees) ELSE f_employees
    /\ f_tasks' = IF "tasks" \in Touched(last.op) THEN _save_tasks(tasks) ELSE f_tasks
    /\ last' = [last EXCEPT !.out = "persisted"]
    /\ UNCHANGED <<running, current_user, memory, f_logs, clock>>

\* the _log_activity call of the operation under way, and its last print
log_and_return ==
    /\ running
    /\ last.out = "persisted"
    /\ _log_activity(current_user, users, last.rows[1], last.rows[2], clock)
    /\ Return(last.op, last.rows[3], last.rows[4])
    /\ UNCHANGED <<running, current_user, users, departments, employees, tasks,
                   f_users, f_departments, f_employees, f_tasks, clock>>

SuccessOutputs ==
    {"True", "Password changed successfully", "created successfully",
     "added successfully", "Task updated successfully"}

\* a call that does not reach its assignments: it prints its refusal, or raises
Refused(op) == last'.op = op /\ last'.out \notin SuccessOutputs

NextStatements ==
    \/ Start
    \/ \E in \in LoginInputs :
          \/ login(in[1], in[2]) /\ Refused("login")
          \/ login_mutate(in[1], in[2])
    \/ logout
    \/ \E in \in ChangePasswordInputs :
          \/ change_password(in[1], in[2], in[3]) /\ Refused("change_password")
          \/ change_password_mutate(in[1], in[2], in[3])
    \/ \E in \in CreateUserInputs :
          \/ create_user(in[1], in[2], in[3], in[4], TextInput, TextInput)
                /\ Refused("create_user")
          \/ create_user_mutate(in[1], in[2], in[3], in[4], TextInput, TextInput)
    \/ list_users
    \/ \E in \in CreateDepartmentInputs :
          \/ create_department(in[1], TextInput, in[2], TextInput, in[3])
                /\ Refused("create_department")
          \/ create_department_mutate(in[1], TextInput, in[2], TextInput, in[3])
    \/ list_departments
    \/ \E in \in AddEmployeeInputs :
          \/ add_employee(in[1], TextInput, TextInput, in[2], in[3], in[4],
                          TextInput, TextInput) /\ Refused("add_employee")
          \/ add_employee_mutate(in[1], TextInput, TextInput, in[2], in[3], in[4],
                                 TextInput, TextInput)
    \/ \E department_id \in OptDeptIds : list_employees(department_id)
    \/ \E in \in CreateTaskInputs :
          \/ create_task(in[1], TextInput, TextInput, in[2], in[3], in[4])
                /\ Refused("create_task")
          \/ create_task_mutate(in[1], TextInput, TextInput, in[2], in[3], in[4])
    \/ \E assigned_to \in OptEmpIds : list_tasks(assigned_to)
    \/ \E in \in UpdateTaskStatusInputs :
          \/ update_task_status(in[1], in[2], in[3]) /\ Refused("update_task_status")
          \/ update_task_status_mutate(in[1], in[2], in[3])
    \/ \E dept_id \in DeptIds : generate_department_report(dept_id)
    \/ \E emp_id \in EmpIds : generate_employee_report(emp_id)
    \/ view_activity_logs
    \/ exit
    \/ persist
    \/ log_and_return
    \/ next_call /\ last.out \notin Positions

SpecStatements == Init /\ [][NextStatements]_vars

\* every file holds what _save_data writes for the collection in memory
AllPersisted ==
    /\ f_users = _save_users(users)
    /\ f_departments = _save_departments(departments)
    /\ f_employees = _save_employees(employees)
    /\ f_tasks = _save_tasks(tasks)

\* C21: statement by statement, a successful login, change_password,
\* create_user, create_department, add_employee, create_task or
\* update_task_status first assigns to the collections (files and log as
\* they were), then writes the files of the collections it touched
\* (collections and log as they were), then appends one log entry, at which
\* point every file holds its collection, the entry is the last of the log,
\* its user is the session user's username, and the success message follows;
\* the log grows in no other step of these operations.
C21_MutatePersistLog ==
    [][/\ \A op \in MutatingOps :
            Calls(op) /\ last'.out = "mutated"
                => UNCHANGED <<logs, files>>
       /\ last.out = "mutated"
            => /\ last'.out = "persisted"
               /\ UNCHANGED <<memory, f_logs, current_user>>
               /\ AllPersisted'
       /\ last.out = "persisted"
            => /\ last'.out \in SuccessOutputs
               /\ last'.op = last.op
               /\ AllPersisted
               /\ UNCHANGED <<users, departments, employees, tasks,
                              f_users, f_departments, f_employees, f_tasks,
                              current_user>>
               /\ Len(logs') = Len(logs) + 1
               /\ SubSeq(logs', 1, Len(logs)) = logs
               /\ current_user # None
               /\ logs'[Len(logs')].user = current_user[1]
               /\ f_logs' = logs'
       /\ (last'.op \in MutatingOps /\ last' # last /\ last'.out \in SuccessOutputs)
            => last.out = "persisted"
       /\ (logs' # logs /\ last'.op \in MutatingOps) => last.out = "persisted"]_vars

\* C21 witness: add_employee has gone through its three steps: the new
\* employee is in both files and the last log entry is the session user's.
C21_Witness ==
    /\ last.op = "add_employee"
    /\ last.out = "added successfully"
    /\ Has(employees, "E2")
    /\ AllPersisted
    /\ logs[Len(logs)].action = "employee_add"
    /\ logs[Len(logs)].details = <<"Added employee", "E2">>
    /\ current_user # None
    /\ logs[Len(logs)].user = current_user[1]

(***************************************************************************)
(* Runs in which the operator leaves the employee id blank                 *)
(***************************************************************************)
\* add_employee with nothing typed at "Employee ID: ": employee id, department
\* id, hire date, salary
BlankIdInputs == {<<"", "D1", "2024-12-31", "10000">>}

NextBlankId ==
    \/ Next
    \/ \E in \in BlankIdInputs :
          add_employee(in[1], TextInput, TextInput, in[2], in[3], in[4],
                       TextInput, TextInput)

SpecBlankId == Init /\ [][NextBlankId]_vars

\* the ids of the tasks whose assignee is emp_id
AssignedTo(emp_id) ==
    {tasks[i].key : i \in {k \in 1..Len(tasks) : tasks[k].val.assigned_to = emp_id}}

C23_AnyStatusToAnyStatus ==
    [][/\ \A i \in 1..Len(tasks) : tasks[i].val.status \in valid_statuses
       /\ \A i \in 1..Len(tasks') : tasks'[i].val.status \in valid_statuses
       /\ \A in \in CreateTaskInputs :
            (/\ Calls("create_task")
             /\ create_task(in[1], TextInput, TextInput, in[2], in[3], in[4])
             /\ last'.out = "created successfully")
                => Get(tasks', in[1]).status = "pending"
       /\ \A in \in UpdateTaskStatusInputs :
            (/\ Calls("update_task_status")
             /\ update_task_status(in[1], in[2], in[3])
             /\ current_user # None
             /\ Has(tasks, in[1])
             /\ lower(in[2]) \in {"pending", "in_progress", "completed", "cancelled"})
                => /\ last'.out = "Task updated successfully"
                   /\ Get(tasks', in[1]).status = lower(in[2])]_vars

\* C23 witness: T1 was cancelled and has then been moved to in_progress.
C23_Witness ==
    /\ last.op = "update_task_status"
    /\ last.out = "Task updated successfully"
    /\ Get(tasks, "T1").status = "in_progress"
    /\ \E i \in 1..Len(logs) :
          logs[i].details = <<"Updated task", "T1", "to status", "cancelled">>

(***************************************************************************)
(* Runs driven by main_menu: each call is made from the menu entry that    *)
(* leads to it                                                             *)
(***************************************************************************)
\* choices 1 and 2 under a session that is not an admin's: main_menu prints
\* "Permission denied" and calls nothing
menu_permission_denied ==
    /\ running
    /\ last = Ready
    /\ current_user # None
    /\ role_of(current_user, users) # "admin"
    /\ Return("main_menu", "Permission denied", <<>>)
    /\ UNCHANGED <<running, current_user, memory, files, clock>>

\* the employee id "List My Tasks" goes on with: the one typed, or for a blank
\* the id of the first employee whose email is the session user's, None when
\* there is none
my_employee_id(typed) ==
    IF typed # "" THEN <<typed>>
    ELSE LET es == Values(employees)
             mine == {i \in 1..Len(es) :
                         es[i].email = Get(users, current_user[1]).email}
         IN  IF mine = {} THEN None
             ELSE <<es[CHOOSE i \in mine : \A j \in mine : i <= j].emp_id>>

\* choice 4, then 3
list_my_tasks(typed) ==
    /\ current_user # None
    /\ IF Truthy(my_employee_id(typed))
       THEN list_tasks(my_employee_id(typed))
       ELSE /\ running
            /\ last = Ready
            /\ Return("main_menu", "No employee record found for current user", <<>>)
            /\ UNCHANGED <<running, current_user, memory, files, clock>>

\* the menu shown: the two choices without a session, the session's menu, and
\* in it the choices that go on only for an admin
LoggedOut == current_user = None
LoggedIn == current_user # None
AdminLoggedIn == current_user # None /\ role_of(current_user, users) = "admin"

NextMenu ==
    \/ Start
    \/ LoggedOut /\ \E in \in LoginInputs : login(in[1], in[2])
    \/ LoggedOut /\ exit
    \/ AdminLoggedIn /\ \E in \in CreateUserInputs :
          create_user(in[1], in[2], in[3], in[4], TextInput, TextInput)
    \/ AdminLoggedIn /\ list_users
    \/ AdminLoggedIn /\ \E in \in CreateDepartmentInputs :
          create_department(in[1], TextInput, in[2], TextInput, in[3])
    \/ AdminLoggedIn /\ list_departments
    \/ AdminLoggedIn /\ view_activity_logs
    \/ menu_permission_denied
    \/ LoggedIn /\ \E in \in AddEmployeeInputs :
          add_employee(in[1], TextInput, TextInput, in[2], in[3], in[4],
                       TextInput, TextInput)
    \/ LoggedIn /\ \E department_id \in OptDeptIds : list_employees(department_id)
    \/ LoggedIn /\ \E in \in CreateTaskInputs :
          create_task(in[1], TextInput, TextInput, in[2], in[3], in[4])
    \/ LoggedIn /\ list_tasks(None)
    \/ \E typed \in {""} \cup EmpIds : list_my_tasks(typed)
    \/ LoggedIn /\ \E in \in UpdateTaskStatusInputs :
          update_task_status(in[1], in[2], in[3])
    \/ LoggedIn /\ \E dept_id \in DeptIds : generate_department_report(dept_id)
    \/ LoggedIn /\ \E emp_id \in EmpIds : generate_employee_report(emp_id)
    \/ LoggedIn /\ \E in \in ChangePasswordInputs :
          change_password(in[1], in[2], in[3])
    \/ LoggedIn /\ logout
    \/ LoggedIn /\ exit
    \/ next_call

SpecMenu == Init /\ [][NextMenu]_vars

\* the login and logout entries of a log, in the order they were written
SessionEntries(l) ==
    SelectSeq(l, LAMBDA e : e.action \in {"login", "logout"})

\* login and logout entries alternate, a login first, each logout by the
\* user of the login before it
Alternating(l) ==
    \A i \in 1..Len(SessionEntries(l)) :
        IF i % 2 = 1
        THEN SessionEntries(l)[i].action = "login"
        ELSE /\ SessionEntries(l)[i].action = "logout"
             /\ SessionEntries(l)[i].user = SessionEntries(l)[i - 1].user

\* C24: under main_menu, login is called only while no user is logged in; a
\* logout, also the one of the exit choice, appends a logout entry with the
\* departing user's name in the step that clears the session; the login and
\* logout entries of the log alternate, a login first; and while no user is
\* logged in no call but login, exit and a start is made.
C24_OneSessionAtATime ==
    [][/\ Calls("login") => current_user = None
       /\ ((Calls("logout") \/ Calls("exit")) /\ current_user # None)
            => /\ current_user' = None
               /\ Len(logs') = Len(logs) + 1
               /\ logs'[Len(logs')].action = "logout"
               /\ logs'[Len(logs')].user = current_user[1]
       /\ Alternating(logs')
       /\ (current_user = None /\ last = Ready /\ running)
            => last'.op \in {"login", "exit"}]_vars

\* C25: in every state, that is after every call, whether it succeeded, was
\* refused or raised, and after every start, each of the four files is what
\* _save_data writes for the collection in memory, so nothing of an earlier
\* content is left in it, each collection is what _load_data builds from its
\* file, and activity_logs.json is the log in memory.
C25_FilesEqualMemory ==
    /\ f_users = _save_users(users)
    /\ f_departments = _save_departments(departments)
    /\ f_employees = _save_employees(employees)
    /\ f_tasks = _save_tasks(tasks)
    /\ f_logs = _save_logs(logs)
    /\ _load_users(f_users) = users
    /\ _load_departments(f_departments, clock) = departments
    /\ _load_employees(f_employees) = employees
    /\ _load_tasks(f_tasks, clock) = tasks

\* C25 witness: admin has logged in and added E2, a create_department call
\* has been refused since, and the files and the collections agree.
C25_Witness ==
    /\ last.op = "create_department"
    /\ last.out = "Department ID already exists"
    /\ Get(users, "admin").last_login = datetime(clock - 1)
    /\ Has(employees, "E2")
    /\ In("E2", Get(departments, Get(employees, "E2").department).employees)
    /\ f_employees = _save_employees(employees)
    /\ f_departments = _save_departments(departments)
    /\ _load_users(f_users) = users
    /\ Len(logs) = Len(SeededLogs) + 2
    /\ f_logs = logs

\* the priority of every task and the role of every user is one of the
\* values the program knows
KnownPrioritiesAndRoles ==
    /\ \A i \in 1..Len(tasks) : tasks[i].val.priority \in {"low", "medium", "high"}
    /\ \A i \in 1..Len(users) : users[i].val.role \in {"admin", "manager", "staff"}
    /\ \A i \in 1..Len(f_tasks) : f_tasks[i].priority \in {"low", "medium", "high"}
    /\ \A i \in 1..Len(f_users) : f_users[i].role \in {"admin", "manager", "staff"}

\* C26: before and after every step, in memory and in the files, every task's
\* priority is low, medium or high and every user's role admin, manager or
\* staff; create_task given a priority that, lower-cased, is none of the
\* three goes on as with the others and stores the task with priority medium;
\* create_user given a role that, lower-cased, is none of the three does not
\* succeed and leaves the users as they were.
C26_PrioritiesAndRoles ==
    [][/\ KnownPrioritiesAndRoles /\ KnownPrioritiesAndRoles'
       /\ \A in \in CreateTaskInputs :
            (/\ Calls("create_task")
             /\ create_task(in[1], TextInput, TextInput, in[2], in[3], in[4])
             /\ last'.out = "created successfully")
                => Get(tasks', in[1]).priority
                      = IF lower(in[4]) \in {"low", "medium", "high"}
                        THEN lower(in[4]) ELSE "medium"
       /\ \A in \in CreateTaskInputs :
            (/\ Calls("create_task")
             /\ create_task(in[1], TextInput, TextInput, in[2], in[3], in[4])
             /\ current_user # None /\ ~Has(tasks, in[1]) /\ Has(employees, in[2])
             /\ ~StrptimeRaises(in[3])
             /\ lower(in[4]) \notin {"low", "medium", "high"})
                => /\ last'.out = "created successfully"
                   /\ Get(tasks', in[1]).priority = "medium"
       /\ \A in \in CreateUserInputs :
            (/\ Calls("create_user")
             /\ create_user(in[1], in[2], in[3], in[4], TextInput, TextInput)
             /\ lower(in[4]) \notin {"admin", "manager", "staff"})
                => /\ last'.out # "created successfully"
                   /\ UNCHANGED <<users, f_users>>]_vars

\* C26 witness: T2 was created with the priority typed as "urgent" and is
\* stored with priority medium, and an admin session's create_user with the
\* role "boss" has been refused.
C26_Witness ==
    /\ last.op = "create_user"
    /\ last.out = "Invalid role"
    /\ SessionRole = "admin"
    /\ ~Has(users, "u2")
    /\ Has(tasks, "T2")
    /\ Get(tasks, "T2").priority = "medium"
    /\ \E i \in 1..Len(logs) : logs[i].action = "task_create" /\ logs[i].user = "admin"
                                  /\ logs[i].details[2] = "T2"

====
